---- MODULE Spec2Model ----
(***************************************************************************)
(* Model of the metrics engine of stock-dashboard: class StockInfo of      *)
(* src/stock_dashboard/stock_info.py.  A StockInfo holds a date-indexed    *)
(* price table (self.prices); rolling_average, bollinger_bands,            *)
(* get_sub_prices_by_day and calculate_growth read it and return a value.  *)
(*                                                                         *)
(* Prices are integers (cents).  A float is modelled exactly: a rational   *)
(* in lowest terms, or one of the IEEE specials inf, -inf, nan that numpy  *)
(* float64 arithmetic produces on a division by zero.  Python's None and a *)
(* raised exception are further outcomes of a call.  Rounding and signed   *)
(* zero are outside the model.  The columns Open and Volume, which no      *)
(* operation of the class reads, are left out of a row.                    *)
(***************************************************************************)
EXTENDS Integers, Sequences, FiniteSets

\* prices, baseline: self.prices of the security and of the baseline fund.
\* call, result: the call in progress (its name and arguments) and the value
\* it returned.  constructed: the two tables as __init__ left them, kept to
\* state what later calls may not change.
VARIABLES prices, baseline, call, result, constructed

vars == <<prices, baseline, call, result, constructed>>

(* ------------------------------ bounds --------------------------------- *)

\* Rows of a price table in the growth specification.
MaxLen == 2
\* Rows of a price table in the window specification.
MaxWinLen == 3
\* Dates are the days 1..MaxDate.
MaxDate == 3
\* Prices are 0..MaxPrice.
MaxPrice == 2
\* Dividends are 0..MaxDiv.
MaxDiv == 1
\* Window periods passed to rolling_average and bollinger_bands are -1..MaxPeriod.
MaxPeriod == 3
\* m_sigma passed to bollinger_bands is -1..MaxSigma.
MaxSigma == 2

(* --------------------------- float arithmetic -------------------------- *)

Abs(i) == IF i < 0 THEN -i ELSE i

RECURSIVE GCD(_, _)
GCD(a, b) == IF b = 0 THEN a ELSE GCD(b, a % b)

\* The rational n/d (d # 0) in lowest terms with a positive denominator.
Num(n, d) ==
    LET s == IF d < 0 THEN -1 ELSE 1
        g == GCD(Abs(n), Abs(d))
    IN  [k |-> "num", n |-> (s * n) \div g, d |-> (s * d) \div g]

F(i) == Num(i, 1)
Zero == F(0)
NaN == [k |-> "nan", n |-> 0, d |-> 1]
Inf == [k |-> "inf", n |-> 1, d |-> 1]
NegInf == [k |-> "inf", n |-> -1, d |-> 1]
\* Python's None.
None == [k |-> "None", n |-> 0, d |-> 1]
\* The call raised ValueError.
ValueError == [k |-> "ValueError", n |-> 0, d |-> 1]

\* A returned pandas Series or DataFrame: its values or rows, in index order.
Series(v) == [k |-> "Series", v |-> v]
DataFrame(v) == [k |-> "DataFrame", v |-> v]

IsNum(x) == x.k = "num"
IsInf(x) == x.k = "inf"
IsNaN(x) == x.k = "nan"

FNeg(x) == IF IsNaN(x) THEN NaN ELSE [x EXCEPT !.n = -x.n]

FAdd(x, y) ==
    IF IsNaN(x) \/ IsNaN(y) THEN NaN
    ELSE IF IsInf(x) /\ IsInf(y) THEN (IF x.n = y.n THEN x ELSE NaN)
    ELSE IF IsInf(x) THEN x
    ELSE IF IsInf(y) THEN y
    ELSE Num(x.n * y.d + y.n * x.d, x.d * y.d)

FSub(x, y) == FAdd(x, FNeg(y))

Sign(i) == IF i > 0 THEN 1 ELSE IF i < 0 THEN -1 ELSE 0

FMul(x, y) ==
    IF IsNaN(x) \/ IsNaN(y) THEN NaN
    ELSE IF IsInf(x) \/ IsInf(y)
         THEN (IF x.n = 0 \/ y.n = 0 THEN NaN
               ELSE IF Sign(x.n) = Sign(y.n) THEN Inf ELSE NegInf)
    ELSE Num(x.n * y.n, x.d * y.d)

\* numpy float64 division: x/0 is inf, -inf or nan, never an exception.
FDiv(x, y) ==
    IF IsNaN(x) \/ IsNaN(y) THEN NaN
    ELSE IF IsInf(x) THEN (IF IsInf(y) THEN NaN
                           ELSE IF y.n < 0 THEN FNeg(x) ELSE x)
    ELSE IF IsInf(y) THEN Zero
    ELSE IF y.n = 0 THEN (IF x.n = 0 THEN NaN ELSE IF x.n > 0 THEN Inf ELSE NegInf)
    ELSE Num(x.n * y.d, x.d * y.n)

(* ------------------------------ __init__ ------------------------------- *)

\* Series.pct_change(periods=1): row t over row t-1, minus 1; nan in the first row.
pct_change(col) ==
    [t \in 1..Len(col) |->
        IF t = 1 THEN NaN ELSE FSub(FDiv(F(col[t]), F(col[t - 1])), F(1))]

\* Series.fillna(0)
fillna0(col) == [t \in 1..Len(col) |-> IF IsNaN(col[t]) THEN Zero ELSE col[t]]

\* np.log(s + 1), kept symbolic: the logarithm of the float s + 1.
log1p(s) == [fn |-> "log", arg |-> FAdd(s, F(1))]

\* StockInfo.__init__: the fetched table (history with the unadjusted close
\* joined in) with the derived columns added.
StockInfoInit(table) ==
    LET Close == [t \in 1..Len(table) |-> table[t].Close]
        percent_change == fillna0(pct_change(Close))
    IN  [t \in 1..Len(table) |->
            [date |-> table[t].date,
             Close |-> table[t].Close,
             Close_raw |-> table[t].Close_raw,
             High |-> table[t].High,
             Low |-> table[t].Low,
             Dividends |-> table[t].Dividends,
             adjust_factor |-> FDiv(F(table[t].Close), F(table[t].Close_raw)),
             percent_change |-> percent_change[t],
             log_percent_change |-> log1p(percent_change[t])]]

(* ------------------------ get_sub_prices_by_day ------------------------ *)

\* A slip: the end date excluded.
DateMaskEndExclusive(p, start_date, end_date) ==
    [t \in 1..Len(p) |-> (p[t].date >= start_date) /\ (p[t].date < end_date)]

\* (self.prices.index >= start_date) & (self.prices.index <= end_date)
DateMask(p, start_date, end_date) ==
    [t \in 1..Len(p) |-> (p[t].date >= start_date) /\ (p[t].date <= end_date)]

\* DataFrame.__getitem__ with a boolean mask: the rows whose mask is True, in order.
RECURSIVE BoolIndex(_, _)
BoolIndex(p, mask) ==
    IF Len(p) = 0 THEN <<>>
    ELSE LET rest == BoolIndex(Tail(p), Tail(mask))
         IN  IF Head(mask) THEN <<Head(p)>> \o rest ELSE rest

get_sub_prices_by_day(p, start_date, end_date) ==
    BoolIndex(p, DateMask(p, start_date, end_date))

(* --------------------------- calculate_growth -------------------------- *)

\* An optional StockInfo argument: baseline=None, or a StockInfo with its table.
NoBaseline == [some |-> FALSE, prices |-> <<>>]
Some(p) == [some |-> TRUE, prices |-> p]

\* min(sub_prices.index), max(sub_prices.index)
IndexMin(sub) ==
    CHOOSE d \in {sub[t].date : t \in 1..Len(sub)} :
        \A t \in 1..Len(sub) : d <= sub[t].date
IndexMax(sub) ==
    CHOOSE d \in {sub[t].date : t \in 1..Len(sub)} :
        \A t \in 1..Len(sub) : d >= sub[t].date

\* sub_prices[col][date]: the row labelled date (index labels are unique).
RowAt(sub, date) == sub[CHOOSE t \in 1..Len(sub) : sub[t].date = date]

\* sub_prices["Dividends"].sum()
RECURSIVE DividendsSum(_)
DividendsSum(sub) ==
    IF Len(sub) = 0 THEN 0 ELSE Head(sub).Dividends + DividendsSum(Tail(sub))

\* A slip: the empty range reported as a growth of 0.
NoDataAsZero == Zero

\* The return value when the range holds no row.
NoData == None

\* "set the initial price if not specified"
InitialPrice(sub_prices, reinvest, initial_price) ==
    IF initial_price = None
    THEN IF reinvest
         THEN F(RowAt(sub_prices, IndexMin(sub_prices)).Close)
         ELSE F(RowAt(sub_prices, IndexMin(sub_prices)).Close_raw)
    ELSE initial_price

\* A slip: the dividends left out of the final value.
FinalPriceWithoutDividends(sub_prices, reinvest) ==
    IF reinvest
    THEN F(RowAt(sub_prices, IndexMax(sub_prices)).Close)
    ELSE F(RowAt(sub_prices, IndexMax(sub_prices)).Close_raw)

FinalPrice(sub_prices, reinvest) ==
    IF reinvest
    THEN F(RowAt(sub_prices, IndexMax(sub_prices)).Close)
    ELSE F(RowAt(sub_prices, IndexMax(sub_prices)).Close_raw
           + DividendsSum(sub_prices))

Growth(final_price, initial_price) ==
    FDiv(FSub(final_price, initial_price), initial_price)

RECURSIVE calculate_growth(_, _, _, _, _, _)

\* A slip: the baseline's growth computed with the default reinvest=False.
BaselineGrowthNotReinvested(base, start_date, end_date) ==
    IF base.some
    THEN LET baseline_growth ==
                 calculate_growth(base.prices, start_date, end_date,
                                  FALSE, None, NoBaseline)
         IN  IF baseline_growth = None THEN Zero ELSE baseline_growth
    ELSE Zero

\* A change: a baseline without data makes the result nan instead of
\* counting as a growth of 0.
BaselineGrowthMissingIsNaN(base, start_date, end_date) ==
    IF base.some
    THEN LET baseline_growth ==
                 calculate_growth(base.prices, start_date, end_date,
                                  TRUE, None, NoBaseline)
         IN  IF baseline_growth = None THEN NaN ELSE baseline_growth
    ELSE Zero

\* The growth of the baseline over the same dates; 0 without a baseline or
\* when the baseline's call returned None.
BaselineGrowth(base, start_date, end_date) ==
    IF base.some
    THEN LET baseline_growth ==
                 calculate_growth(base.prices, start_date, end_date,
                                  TRUE, None, NoBaseline)
         IN  IF baseline_growth = None THEN Zero ELSE baseline_growth
    ELSE Zero

calculate_growth(self, start_date, end_date, reinvest, initial_price, base) ==
    LET sub_prices == get_sub_prices_by_day(self, start_date, end_date)
    IN  IF Len(sub_prices) = 0
        THEN NoData
        ELSE LET ip == InitialPrice(sub_prices, reinvest, initial_price)
                 final_price == FinalPrice(sub_prices, reinvest)
                 growth == Growth(final_price, ip)
             IN  FSub(growth, BaselineGrowth(base, start_date, end_date))

(* ---------------------- rolling windows (pandas) ----------------------- *)

\* Series.rolling(window) with an integer window: min_periods defaults to the
\* window; a negative window raises ValueError; a window of 0 is accepted.
WindowRejected(period) == period < 0

\* A slip: rolling(period, min_periods=1), which averages partial windows.
MinPeriodsOne(period) == 1

MinPeriods(period) == period

\* The observations of the trailing window ending at row t: rows
\* max(0, t - window) + 1 .. t.
WindowAt(col, period, t) ==
    LET start == IF t - period < 0 THEN 0 ELSE t - period
    IN  [j \in 1..(t - start) |-> col[start + j]]

RECURSIVE FSum(_)
FSum(xs) == IF Len(xs) = 0 THEN Zero ELSE FAdd(Head(xs), FSum(Tail(xs)))

\* Rolling.mean(): sum / nobs once nobs reaches min_periods, else nan.
RollMean(col, period) ==
    [t \in 1..Len(col) |->
        LET w == WindowAt(col, period, t)
            nobs == Len(w)
        IN  IF nobs >= MinPeriods(period) /\ nobs > 0
            THEN FDiv(FSum(w), F(nobs))
            ELSE NaN]

\* Rolling.var(ddof=1): sum of squares about the mean over nobs - 1, once
\* nobs reaches min_periods and exceeds ddof, else nan.
RollVar(col, period) ==
    [t \in 1..Len(col) |->
        LET w == WindowAt(col, period, t)
            nobs == Len(w)
            sq == [j \in 1..nobs |-> FMul(w[j], w[j])]
        IN  IF nobs >= MinPeriods(period) /\ nobs > 1
            THEN FDiv(FSub(FSum(sq), FDiv(FMul(FSum(w), FSum(w)), F(nobs))),
                      F(nobs - 1))
            ELSE NaN]

\* A float of the form a + c * sqrt(r), r > 0 rational and c # 0: square
\* roots are kept symbolic.
Surd(a, c, r) == [k |-> "surd", a |-> a, c |-> c, r |-> r]
IsSurd(x) == x.k = "surd"

Sqrt(v) == IF IsNaN(v) THEN NaN ELSE IF v.n = 0 THEN Zero ELSE Surd(Zero, 1, v)

\* Rolling.std(): the square root of Rolling.var().
RollStd(col, period) ==
    LET var == RollVar(col, period)
    IN  [t \in 1..Len(col) |-> Sqrt(var[t])]

\* m * s for an integer m and a standard deviation s.
SScale(m, s) ==
    IF IsNaN(s) THEN NaN
    ELSE IF IsNum(s) THEN FMul(F(m), s)
    ELSE IF m = 0 THEN Zero
    ELSE Surd(FMul(F(m), s.a), m * s.c, s.r)

SNeg(s) == IF IsSurd(s) THEN Surd(FNeg(s.a), -s.c, s.r) ELSE FNeg(s)

\* x + s for a mean x and a scaled standard deviation s.
SAdd(x, s) ==
    IF IsNaN(x) \/ IsNaN(s) THEN NaN
    ELSE IF IsNum(s) THEN FAdd(x, s)
    ELSE Surd(FAdd(x, s.a), s.c, s.r)

SSub(x, s) == SAdd(x, SNeg(s))

(* --------------------------- rolling_average --------------------------- *)

CloseColumn(p) == [t \in 1..Len(p) |-> F(p[t].Close)]

rolling_average(p, period) ==
    IF WindowRejected(period) THEN ValueError
    ELSE Series(RollMean(CloseColumn(p), period))

(* --------------------------- bollinger_bands --------------------------- *)

\* (Close + High + Low) / 3
TypicalPrice(p) ==
    [t \in 1..Len(p) |-> FDiv(F(p[t].Close + p[t].High + p[t].Low), F(3))]

BollingerUpper(moving_average, m_sigma, moving_sd) ==
    SAdd(moving_average, SScale(m_sigma, moving_sd))

\* A slip: the lower band one standard deviation below, whatever m_sigma.
BollingerLowerOneSigma(moving_average, m_sigma, moving_sd) ==
    SSub(moving_average, moving_sd)

BollingerLower(moving_average, m_sigma, moving_sd) ==
    SSub(moving_average, SScale(m_sigma, moving_sd))

bollinger_bands(p, period, m_sigma) ==
    IF WindowRejected(period) THEN ValueError
    ELSE LET typical_price == TypicalPrice(p)
             moving_average == RollMean(typical_price, period)
             moving_sd == RollStd(typical_price, period)
         IN  DataFrame([t \in 1..Len(p) |->
                 [bollinger_ma |-> moving_average[t],
                  bollinger_upper |->
                      BollingerUpper(moving_average[t], m_sigma, moving_sd[t]),
                  bollinger_lower |->
                      BollingerLower(moving_average[t], m_sigma, moving_sd[t])]])

(* ------------------------- fetched price tables ------------------------ *)

\* The dates of D in increasing order (the provider's table is date-sorted).
RECURSIVE SortedDates(_)
SortedDates(D) ==
    IF D = {} THEN <<>>
    ELSE LET m == CHOOSE d \in D : \A e \in D : d <= e
         IN  <<m>> \o SortedDates(D \ {m})

DateSets(maxlen) ==
    {D \in SUBSET (1..MaxDate) : Cardinality(D) >= 1 /\ Cardinality(D) <= maxlen}

\* The tables whose index is D and whose rows take their values in vals.
TablesOn(D, vals) ==
    LET idx == SortedDates(D)
    IN  {[t \in 1..Len(idx) |->
            [date |-> idx[t], Close |-> v[t].Close, Close_raw |-> v[t].Close_raw,
             High |-> v[t].High, Low |-> v[t].Low, Dividends |-> v[t].Dividends]]
         : v \in [1..Len(idx) -> vals]}

\* Rows that differ in adjusted close, raw close and dividend.
GrowthRows ==
    {[Close |-> c, Close_raw |-> r, High |-> c, Low |-> c, Dividends |-> dv]
     : c \in 0..MaxPrice, r \in 0..MaxPrice, dv \in 0..MaxDiv}

\* Rows of a fund: a positive close, with or without a dividend.
FundRows ==
    {[Close |-> c, Close_raw |-> c, High |-> c, Low |-> c, Dividends |-> dv]
     : c \in 1..MaxPrice, dv \in 0..MaxDiv}

\* Rows that differ in close, high and low, with low <= close <= high.
WindowRows ==
    UNION {{[Close |-> c, Close_raw |-> c, High |-> h, Low |-> l, Dividends |-> 0]
            : h \in c..(c + 1), l \in (IF c = 0 THEN {0} ELSE (c - 1)..c)}
           : c \in 0..MaxPrice}

GrowthTables == UNION {TablesOn(D, GrowthRows) : D \in DateSets(MaxLen)}
FundTables == UNION {TablesOn(D, FundRows) : D \in DateSets(MaxLen)}
\* A baseline fund listed from day 2 on.
BaselineTables == TablesOn(2..MaxDate, FundRows)
WindowTables == UNION {TablesOn(1..n, WindowRows) : n \in 1..MaxWinLen}

\* One baseline fund: 1 on day 2; 2 on day 3, when it pays a dividend of 1.
OneBaseline ==
    <<[date |-> 2, Close |-> 1, Close_raw |-> 1, High |-> 1, Low |-> 1,
       Dividends |-> 0],
      [date |-> 3, Close |-> 2, Close_raw |-> 2, High |-> 2, Low |-> 2,
       Dividends |-> 1]>>

(* ------------------------------ the calls ------------------------------ *)

\* The arguments a caller passes.
Dates == 1..MaxDate
Periods == -1..MaxPeriod
Sigmas == -1..MaxSigma
InitialPrices == {None} \cup {F(i) : i \in 0..MaxPrice}

\* No call in progress; the arguments' defaults.
NoCall ==
    [op |-> "none", period |-> 10, m_sigma |-> 2, start_date |-> 0,
     end_date |-> 0, reinvest |-> FALSE, initial_price |-> None,
     with_baseline |-> FALSE]

\* The engine is synchronous: a call starts when no other is in progress.
Idle == call = NoCall

RollingAverage(period) ==
    /\ Idle
    /\ call' = [NoCall EXCEPT !.op = "rolling_average", !.period = period]
    /\ result' = rolling_average(prices, period)
    /\ UNCHANGED <<prices, baseline, constructed>>

BollingerBands(period, m_sigma) ==
    /\ Idle
    /\ call' = [NoCall EXCEPT !.op = "bollinger_bands", !.period = period,
                              !.m_sigma = m_sigma]
    /\ result' = bollinger_bands(prices, period, m_sigma)
    /\ UNCHANGED <<prices, baseline, constructed>>

\* A slip: the table filtered in place, self.prices rebound to the rows in
\* range.
GetSubPricesByDayInPlace(start_date, end_date) ==
    /\ Idle
    /\ call' = [NoCall EXCEPT !.op = "get_sub_prices_by_day",
                              !.start_date = start_date, !.end_date = end_date]
    /\ prices' = get_sub_prices_by_day(prices, start_date, end_date)
    /\ result' = DataFrame(prices')
    /\ UNCHANGED <<baseline, constructed>>

GetSubPricesByDay(start_date, end_date) ==
    /\ Idle
    /\ call' = [NoCall EXCEPT !.op = "get_sub_prices_by_day",
                              !.start_date = start_date, !.end_date = end_date]
    /\ result' = DataFrame(get_sub_prices_by_day(prices, start_date, end_date))
    /\ UNCHANGED <<prices, baseline, constructed>>

CalculateGrowth(start_date, end_date, reinvest, initial_price, with_baseline) ==
    /\ Idle
    /\ call' = [NoCall EXCEPT !.op = "calculate_growth",
                              !.start_date = start_date, !.end_date = end_date,
                              !.reinvest = reinvest,
                              !.initial_price = initial_price,
                              !.with_baseline = with_baseline]
    /\ result' = calculate_growth(prices, start_date, end_date, reinvest,
                                  initial_price,
                                  IF with_baseline THEN Some(baseline)
                                  ELSE NoBaseline)
    /\ UNCHANGED <<prices, baseline, constructed>>

\* The caller has taken the returned value; the objects stay as they are
\* and the next call may start.
Return ==
    /\ ~Idle
    /\ call' = NoCall
    /\ result' = None
    /\ UNCHANGED <<prices, baseline, constructed>>

WindowCalls ==
    \/ \E period \in Periods : RollingAverage(period)
    \/ \E period \in Periods, m_sigma \in Sigmas : BollingerBands(period, m_sigma)

SubRangeCalls ==
    \E start_date \in Dates, end_date \in Dates :
        GetSubPricesByDay(start_date, end_date)

GrowthCalls ==
    \E start_date \in Dates, end_date \in Dates, reinvest \in BOOLEAN,
          initial_price \in InitialPrices, with_baseline \in BOOLEAN :
        CalculateGrowth(start_date, end_date, reinvest, initial_price,
                        with_baseline)

Next == WindowCalls \/ SubRangeCalls \/ GrowthCalls \/ Return

\* Two StockInfo objects just constructed from the fetched tables.
Constructed(table, btable) ==
    /\ prices = StockInfoInit(table)
    /\ baseline = StockInfoInit(btable)
    /\ constructed = [prices |-> prices, baseline |-> baseline]
    /\ call = NoCall
    /\ result = None

\* Every call, on securities that differ in adjusted close, raw close and
\* dividends, with one baseline fund.
Init == \E table \in GrowthTables : Constructed(table, OneBaseline)

Spec == Init /\ [][Next]_vars

\* The range calls on a fund and a baseline fund that differ in their
\* dates, closes and dividends.
InitBaseline ==
    \E table \in FundTables, btable \in BaselineTables : Constructed(table, btable)

SpecBaseline == InitBaseline /\ [][SubRangeCalls \/ GrowthCalls \/ Return]_vars

\* The calls that return a table, on tables of up to MaxWinLen consecutive
\* days that differ in close, high and low.
InitWindow == \E table \in WindowTables : Constructed(table, OneBaseline)

SpecWindow == InitWindow /\ [][WindowCalls \/ SubRangeCalls \/ Return]_vars

(* ------------------------ the dashboard (app.py) ----------------------- *)

\* The dashboard's own StockInfo.__init__: history(period="max") as fetched,
\* without the raw close and the derived columns.
AppTable(p) ==
    [t \in 1..Len(p) |->
        [date |-> p[t].date, Close |-> p[t].Close, High |-> p[t].High,
         Low |-> p[t].Low, Dividends |-> p[t].Dividends]]

\* The dashboard's get_sub_prices_by_day.
app_get_sub_prices_by_day(p, start_date, end_date) ==
    BoolIndex(p, [t \in 1..Len(p) |->
                     (p[t].date >= start_date) /\ (p[t].date <= end_date)])

\* A slip: the growth taken relative to the latest close.
app_calculate_growth_over_latest(p, start_date, end_date) ==
    LET sub_prices == app_get_sub_prices_by_day(p, start_date, end_date)
    IN  IF Len(sub_prices) = 0 THEN ValueError
        ELSE LET first == F(RowAt(sub_prices, IndexMin(sub_prices)).Close)
                 last == F(RowAt(sub_prices, IndexMax(sub_prices)).Close)
             IN  FDiv(FSub(last, first), last)

\* The dashboard's calculate_growth: the growth between the adjusted closes.
\* min() of an empty index raises ValueError.
app_calculate_growth(p, start_date, end_date) ==
    LET sub_prices == app_get_sub_prices_by_day(p, start_date, end_date)
    IN  IF Len(sub_prices) = 0 THEN ValueError
        ELSE LET first == F(RowAt(sub_prices, IndexMin(sub_prices)).Close)
                 last == F(RowAt(sub_prices, IndexMax(sub_prices)).Close)
             IN  FDiv(FSub(last, first), first)

\* What run_main writes to its three columns.
Columns(stock_growth, baseline_growth) ==
    [k |-> "columns", stock_growth |-> stock_growth,
     baseline_growth |-> baseline_growth,
     beat |-> FSub(stock_growth, baseline_growth)]

\* A call of the dashboard's calculate_growth on the security.
AppCalculateGrowth(start_date, end_date) ==
    /\ Idle
    /\ call' = [NoCall EXCEPT !.op = "app.calculate_growth",
                              !.start_date = start_date, !.end_date = end_date]
    /\ result' = app_calculate_growth(AppTable(prices), start_date, end_date)
    /\ UNCHANGED <<prices, baseline, constructed>>

\* run_main, "calculate the growth relative to the baseline": the growth of
\* the security, then of the baseline fund, then the three columns; an
\* exception of either call ends the run.
RunMain(start_date, end_date) ==
    /\ Idle
    /\ call' = [NoCall EXCEPT !.op = "run_main",
                              !.start_date = start_date, !.end_date = end_date]
    /\ LET stock_growth ==
               app_calculate_growth(AppTable(prices), start_date, end_date)
           baseline_growth ==
               app_calculate_growth(AppTable(baseline), start_date, end_date)
       IN  result' = IF stock_growth = ValueError \/ baseline_growth = ValueError
                     THEN ValueError
                     ELSE Columns(stock_growth, baseline_growth)
    /\ UNCHANGED <<prices, baseline, constructed>>

DashboardCalls ==
    \/ \E start_date \in Dates, end_date \in Dates :
           AppCalculateGrowth(start_date, end_date)
    \/ \E start_date \in Dates, end_date \in Dates : RunMain(start_date, end_date)

\* The engine's calculate_growth with reinvest=True and no initial price, as
\* the dashboard's figures are compared with.
ReinvestedGrowthCalls ==
    \E start_date \in Dates, end_date \in Dates, with_baseline \in BOOLEAN :
        CalculateGrowth(start_date, end_date, TRUE, None, with_baseline)

\* Baseline funds that pay no dividend.
PlainBaselineTables ==
    {table \in BaselineTables : \A t \in 1..Len(table) : table[t].Dividends = 0}

\* The dashboard's and the engine's growth of the same securities, against
\* the same baseline funds.
InitDashboard ==
    \E table \in GrowthTables, btable \in PlainBaselineTables :
        Constructed(table, btable)

SpecDashboard ==
    InitDashboard /\ [][DashboardCalls \/ ReinvestedGrowthCalls \/ Return]_vars

(* ============================== the claims ============================= *)

\* The rows of table p dated within [start_date, end_date].
InRange(p, start_date, end_date) ==
    {t \in 1..Len(p) : start_date <= p[t].date /\ p[t].date <= end_date}

\* The first and the last of a non-empty set of row numbers.
First(S) == CHOOSE t \in S : \A u \in S : t <= u
Last(S) == CHOOSE t \in S : \A u \in S : t >= u

\* The float x is the quotient n / d of two integers: the rational when
\* d # 0, and the IEEE quotient (inf, -inf or nan) when d = 0.
IsQuotient(x, n, d) ==
    IF d # 0 THEN IsNum(x) /\ x.n * d = n * x.d
    ELSE \/ n > 0 /\ x = Inf
         \/ n < 0 /\ x = NegInf
         \/ n = 0 /\ x = NaN

IsFloat(x) == IsNum(x) \/ IsInf(x) \/ IsNaN(x)

GrowthCalled == call.op = "calculate_growth"

PrimaryRows == InRange(prices, call.start_date, call.end_date)
BaselineRowsInRange == InRange(baseline, call.start_date, call.end_date)

\* C1: a calculate_growth call whose range holds no row of the series
\* (every range with start_date > end_date included) returns None, the
\* Unavailable outcome: no exception and no number, whatever reinvest,
\* initial_price and baseline are.
C1_EmptyRangeIsUnavailable ==
    (GrowthCalled /\ PrimaryRows = {}) => result = None

\* C1 witness: a reversed range with an initial price of 0 and a baseline
\* returned None.
C1_Witness ==
    /\ GrowthCalled
    /\ call.start_date > call.end_date
    /\ call.initial_price = Zero
    /\ call.with_baseline
    /\ call.reinvest
    /\ result = None

\* The initial price a calculate_growth call divides by: the supplied price,
\* else the close (adjusted when reinvest, raw otherwise) of the earliest
\* row in range.
InitialUsed ==
    IF call.initial_price # None THEN call.initial_price
    ELSE IF call.reinvest THEN F(prices[First(PrimaryRows)].Close)
    ELSE F(prices[First(PrimaryRows)].Close_raw)

\* C2 (as claimed): a calculate_growth call on a non-empty range whose
\* initial price is zero ends in the InvalidArgument error, never in a number
\* or an infinity.
C2_ZeroInitialPriceIsRejected ==
    (GrowthCalled /\ PrimaryRows # {} /\ InitialUsed = Zero)
        => result = ValueError

\* The sum of the adjusted closes of rows a..b of the series.
RECURSIVE CloseSum(_, _)
CloseSum(a, b) == IF a > b THEN 0 ELSE prices[b].Close + CloseSum(a, b - 1)

RollingCalled == call.op = "rolling_average"

\* C3: for every period p >= 1 and every row i, rolling_average(p) is defined
\* at i exactly when i >= p (p observations exist up to and including i),
\* is nan otherwise, and when defined is the mean of the adjusted close over
\* rows i-p+1..i: never a partial-window average.
C3_RollingAverageIsFullWindowMean ==
    (RollingCalled /\ call.period >= 1) =>
        /\ result.k = "Series"
        /\ DOMAIN result.v = 1..Len(prices)
        /\ \A i \in 1..Len(prices) :
              LET p == call.period
              IN  IF i >= p
                  THEN IsQuotient(result.v[i], CloseSum(i - p + 1, i), p)
                  ELSE IsNaN(result.v[i])

\* C3 witness: a 2-day average over three rows with different closes is
\* undefined at the first row and differs between the second and the third.
C3_Witness ==
    /\ RollingCalled
    /\ call.period = 2
    /\ Len(prices) = 3
    /\ IsNaN(result.v[1])
    /\ IsNum(result.v[2])
    /\ IsNum(result.v[3])
    /\ result.v[2] # result.v[3]

\* C4 (as claimed): rolling_average with a period <= 0 ends in the
\* InvalidArgument error and returns no series.
C4_NonPositivePeriodIsRejected ==
    (RollingCalled /\ call.period <= 0) => result = ValueError

\* The sum of the dividends of rows a..b of table p.
RECURSIVE DividendsOver(_, _, _)
DividendsOver(p, a, b) ==
    IF a > b THEN 0 ELSE p[b].Dividends + DividendsOver(p, a, b - 1)

\* The integers a calculate_growth call on a non-empty range divides: the
\* initial price (a supplied price is an integer here), and the final value
\* less the initial price.
InitialInt ==
    IF call.initial_price # None THEN call.initial_price.n
    ELSE IF call.reinvest THEN prices[First(PrimaryRows)].Close
    ELSE prices[First(PrimaryRows)].Close_raw

FinalInt ==
    IF call.reinvest THEN prices[Last(PrimaryRows)].Close
    ELSE prices[Last(PrimaryRows)].Close_raw
         + DividendsOver(prices, First(PrimaryRows), Last(PrimaryRows))

\* The same for the baseline's reinvested growth over the call's range; 0/1
\* when no baseline is passed or the baseline has no row in range.
BaselineCounts == call.with_baseline /\ BaselineRowsInRange # {}

BaselineInitialInt ==
    IF BaselineCounts THEN baseline[First(BaselineRowsInRange)].Close ELSE 1

BaselineFinalInt ==
    IF BaselineCounts THEN baseline[Last(BaselineRowsInRange)].Close ELSE 1

\* The float x is gn/gd - bn/bd as float64 arithmetic gives it.
IsDifference(x, gn, gd, bn, bd) ==
    IF gd # 0 /\ bd # 0 THEN IsQuotient(x, gn * bd - bn * gd, gd * bd)
    ELSE IF bd # 0 THEN IsQuotient(x, gn, 0)
    ELSE IF gd # 0 THEN IsQuotient(x, -bn, 0)
    ELSE IF gn = 0 \/ bn = 0 \/ Sign(gn) = Sign(bn) THEN x = NaN
    ELSE IsQuotient(x, gn, 0)

\* C5: on a range where the series has data, calculate_growth returns
\* growth - baseline_growth: growth from the call's own reinvest and
\* initial_price, baseline_growth the baseline's growth between its adjusted
\* closes over the same dates (reinvest=true, no initial_price, no further
\* baseline) whatever the call's reinvest and initial_price, taken as 0 when
\* the baseline has no data in the range or no baseline is passed.
C5_ResultIsGrowthMinusBaselineGrowth ==
    (GrowthCalled /\ PrimaryRows # {}) =>
        IsDifference(result, FinalInt - InitialInt, InitialInt,
                     BaselineFinalInt - BaselineInitialInt, BaselineInitialInt)

\* C5 witness: a call without reinvestment and with a supplied initial
\* price, against a baseline that grew and paid a dividend in the range,
\* returned a number other than the growth alone.
C5_Witness ==
    /\ GrowthCalled
    /\ call.with_baseline
    /\ ~call.reinvest
    /\ call.initial_price = F(1)
    /\ Cardinality(PrimaryRows) = 2
    /\ Cardinality(BaselineRowsInRange) = 2
    /\ DividendsOver(baseline, 1, Len(baseline)) > 0
    /\ BaselineFinalInt > BaselineInitialInt
    /\ IsNum(result)
    /\ ~IsQuotient(result, FinalInt - InitialInt, InitialInt)

SubRangeCalled == call.op = "get_sub_prices_by_day"

\* C6: get_sub_prices_by_day returns exactly the rows with
\* start_date <= date <= end_date, both bounds inclusive: each such row once,
\* no other row, in the series' order; and an empty table, not an error,
\* when no row is in range.
C6_SubRangeIsExactlyTheRowsInRange ==
    SubRangeCalled =>
        /\ result.k = "DataFrame"
        /\ Len(result.v) = Cardinality(PrimaryRows)
        /\ \A t \in PrimaryRows : \E j \in 1..Len(result.v) : result.v[j] = prices[t]
        /\ \A j \in 1..Len(result.v) :
              \E t \in PrimaryRows : result.v[j] = prices[t]
        /\ \A j, m \in 1..Len(result.v) :
              j < m => result.v[j].date < result.v[m].date

\* C6 witness: a range that starts at one row's date and ends at a later
\* row's date returned both rows, and the series has a row outside it.
C6_Witness ==
    /\ SubRangeCalled
    /\ Len(result.v) = 2
    /\ result.v[1].date = call.start_date
    /\ result.v[2].date = call.end_date
    /\ Len(prices) = 3

\* C7 (as claimed): no series consulted by calculate_growth that lacks data
\* in the range is counted as a growth of 0: an empty primary range gives no
\* float, and a baseline without data in the range does not leave the
\* result at the growth computed with a baseline growth of 0.
C7_MissingDataIsNeverCountedAsZero ==
    GrowthCalled =>
        /\ PrimaryRows = {} => ~IsFloat(result)
        /\ (call.with_baseline /\ PrimaryRows # {} /\ BaselineRowsInRange = {})
              => ~IsQuotient(result, FinalInt - InitialInt, InitialInt)

\* C7 (amended): a primary series without data in the range gives None,
\* never a float; a supplied baseline without data in the range, the primary
\* having data, is counted as a baseline growth of 0: the result is the
\* primary's growth itself.
C7_OnlyTheBaselineCountsAsZero ==
    GrowthCalled =>
        /\ PrimaryRows = {} => result = None
        /\ (call.with_baseline /\ PrimaryRows # {} /\ BaselineRowsInRange = {})
              => IsQuotient(result, FinalInt - InitialInt, InitialInt)

\* C7 witness: the baseline has no row in the range, the primary has, and
\* the call returned the primary's non-zero growth.
C7_Witness ==
    /\ GrowthCalled
    /\ call.with_baseline
    /\ PrimaryRows # {}
    /\ BaselineRowsInRange = {}
    /\ IsNum(result)
    /\ result # Zero

\* What call c returns on the tables p (the security) and b (the baseline).
Outcome(c, p, b) ==
    CASE c.op = "rolling_average" -> rolling_average(p, c.period)
      [] c.op = "bollinger_bands" -> bollinger_bands(p, c.period, c.m_sigma)
      [] c.op = "get_sub_prices_by_day" ->
             DataFrame(get_sub_prices_by_day(p, c.start_date, c.end_date))
      [] c.op = "calculate_growth" ->
             calculate_growth(p, c.start_date, c.end_date, c.reinvest,
                              c.initial_price,
                              IF c.with_baseline THEN Some(b) ELSE NoBaseline)

\* C8: after any sequence of calls of rolling_average, bollinger_bands,
\* get_sub_prices_by_day and calculate_growth (its baseline evaluation
\* included), every row and derived column of the security's and of the
\* baseline's table equals its value at construction, and a call returns
\* what the same call returns on the tables as constructed: a repeated call
\* returns the same result.
C8_CallsLeaveTheTablesAsConstructed ==
    /\ prices = constructed.prices
    /\ baseline = constructed.baseline
    /\ ~Idle => result = Outcome(call, constructed.prices, constructed.baseline)

\* C8 witness: a calculate_growth call with the baseline, both tables
\* having rows in range, returned a number.
C8_Witness ==
    /\ GrowthCalled
    /\ call.with_baseline
    /\ PrimaryRows # {}
    /\ BaselineRowsInRange # {}
    /\ IsNum(result)
    /\ prices = constructed.prices
    /\ baseline = constructed.baseline

\* C9: without a baseline and on a non-empty range, calculate_growth returns
\* (final_value - initial_price) / initial_price: initial_price the supplied
\* value, else the adjusted close (reinvest) or the raw close (no reinvest)
\* of the earliest row in range; final_value the adjusted close of the
\* latest row (reinvest), else its raw close plus the dividends of every row
\* from the earliest to the latest.
C9_GrowthFormula ==
    (GrowthCalled /\ PrimaryRows # {} /\ ~call.with_baseline) =>
        IsQuotient(result, FinalInt - InitialInt, InitialInt)

\* C9 witness: two rows in range, no reinvestment, no supplied price, a
\* dividend on each row and a raw close that differs from the adjusted one.
C9_Witness ==
    /\ GrowthCalled
    /\ ~call.with_baseline
    /\ ~call.reinvest
    /\ call.initial_price = None
    /\ Cardinality(PrimaryRows) = 2
    /\ \A t \in PrimaryRows :
          prices[t].Dividends > 0 /\ prices[t].Close # prices[t].Close_raw
    /\ IsNum(result)
    /\ result # Zero

BollingerCalled == call.op = "bollinger_bands"

\* Three times the typical price of row j: close + high + low.
TypicalTimes3(j) == prices[j].Close + prices[j].High + prices[j].Low

RECURSIVE TypicalSum(_, _)
TypicalSum(a, b) == IF a > b THEN 0 ELSE TypicalTimes3(b) + TypicalSum(a, b - 1)

\* The sum over rows a..b of (p * TypicalTimes3(j) - s)^2: with s the
\* window's TypicalSum, 9 p^2 times the squared deviations from the mean.
RECURSIVE SquaresAbout(_, _, _, _)
SquaresAbout(a, b, p, s) ==
    IF a > b THEN 0
    ELSE (p * TypicalTimes3(b) - s) * (p * TypicalTimes3(b) - s)
         + SquaresAbout(a, b - 1, p, s)

\* 9 p^2 (p-1) times the sample variance of the typical price over the
\* window of p rows ending at t: sd[t] > 0 exactly when it is positive.
VarianceTimes(t, p) ==
    SquaresAbout(t - p + 1, t, p, TypicalSum(t - p + 1, t))

\* A band value a + c * sqrt(r): its rational part and its coefficient.
Rational(x) == IF IsSurd(x) THEN x.a ELSE x
Coef(x) == IF IsSurd(x) THEN x.c ELSE 0

\* The sign of a + c * sqrt(r) for a rational a, an integer c and a
\* rational r > 0.
SignOfSurd(a, c, r) ==
    IF c = 0 THEN Sign(a.n)
    ELSE IF a.n = 0 \/ Sign(a.n) = Sign(c) THEN Sign(c)
    ELSE LET lhs == a.n * a.n * r.d       \* a^2 against c^2 r
             rhs == c * c * r.n * a.d * a.d
         IN  IF lhs > rhs THEN Sign(a.n) ELSE IF lhs < rhs THEN Sign(c) ELSE 0

\* x < y for two band values over the variance r.
BandLess(x, y, r) ==
    SignOfSurd(FSub(Rational(x), Rational(y)), Coef(x) - Coef(y), r) < 0

BandsDefined(t) ==
    ~IsNaN(result.v[t].bollinger_upper) /\ ~IsNaN(result.v[t].bollinger_lower)

\* At a row where the bands are defined: the window is full, bollinger_ma is
\* the mean of the typical price over it, and upper - lower = 2 m_sigma sd.
BandsAt(t) ==
    LET p == call.period
        m == call.m_sigma
        row == result.v[t]
        q == VarianceTimes(t, p)
        var == Num(q, 9 * p * p * (p - 1))
    IN  /\ p >= 2 /\ t >= p
        /\ IsQuotient(row.bollinger_ma, TypicalSum(t - p + 1, t), 3 * p)
        /\ Rational(row.bollinger_upper) = Rational(row.bollinger_lower)
        /\ IF q > 0
           THEN /\ Coef(row.bollinger_upper) - Coef(row.bollinger_lower) = 2 * m
                /\ IsSurd(row.bollinger_upper) => row.bollinger_upper.r = var
                /\ IsSurd(row.bollinger_lower) => row.bollinger_lower.r = var
           ELSE row.bollinger_upper = row.bollinger_lower

\* lower < ma < upper at row t.
MaStrictlyBetween(t) ==
    LET p == call.period
        row == result.v[t]
        var == Num(VarianceTimes(t, p), 9 * p * p * (p - 1))
    IN  /\ BandLess(row.bollinger_lower, row.bollinger_ma, var)
        /\ BandLess(row.bollinger_ma, row.bollinger_upper, var)

\* C10 (as claimed): for every period and every m_sigma, at every row where
\* the bands are defined, upper - lower = 2 m_sigma sd with bollinger_ma the
\* trailing mean of the typical price, and lower < ma < upper whenever
\* sd > 0.
C10_BandsAroundTheMean ==
    (BollingerCalled /\ result.k = "DataFrame") =>
        \A t \in 1..Len(prices) :
            BandsDefined(t) =>
                /\ BandsAt(t)
                /\ VarianceTimes(t, call.period) > 0 => MaStrictlyBetween(t)

\* C10 (amended): the same, with lower < ma < upper whenever sd > 0 and
\* m_sigma > 0.
C10_BandsAroundTheMeanForPositiveSigma ==
    (BollingerCalled /\ result.k = "DataFrame") =>
        \A t \in 1..Len(prices) :
            BandsDefined(t) =>
                /\ BandsAt(t)
                /\ (VarianceTimes(t, call.period) > 0 /\ call.m_sigma > 0)
                      => MaStrictlyBetween(t)

\* C10 witness: 2-sigma bands over a 2-row window of different typical
\* prices, at the third row.
C10_Witness ==
    /\ BollingerCalled
    /\ call.period = 2
    /\ call.m_sigma = 2
    /\ Len(prices) = 3
    /\ BandsDefined(3)
    /\ VarianceTimes(3, 2) > 0
    /\ IsSurd(result.v[3].bollinger_upper)
    /\ MaStrictlyBetween(3)

AppGrowthCalled == call.op = "app.calculate_growth"
RunMainCalled == call.op = "run_main"

\* C11: on a range holding a row of the series, the dashboard's
\* calculate_growth returns what the engine's calculate_growth returns with
\* reinvest=true, no initial_price and no baseline; and when the baseline
\* has a row in the range too, the dashboard's beat, stock_growth -
\* baseline_growth, is what the engine returns with the baseline supplied.
\* Stated of the dashboard's calls against the engine, and of the engine's
\* calls against the dashboard.
C11_DashboardGrowthIsEngineReinvestedGrowth ==
    LET s == call.start_date
        e == call.end_date
        app_stock == app_calculate_growth(AppTable(prices), s, e)
        app_baseline == app_calculate_growth(AppTable(baseline), s, e)
    IN  /\ (AppGrowthCalled /\ PrimaryRows # {}) =>
               result = calculate_growth(prices, s, e, TRUE, None, NoBaseline)
        /\ (RunMainCalled /\ PrimaryRows # {} /\ BaselineRowsInRange # {}) =>
               /\ result.k = "columns"
               /\ result.stock_growth =
                      calculate_growth(prices, s, e, TRUE, None, NoBaseline)
               /\ result.beat =
                      calculate_growth(prices, s, e, TRUE, None, Some(baseline))
        /\ (GrowthCalled /\ call.reinvest /\ call.initial_price = None
            /\ ~call.with_baseline /\ PrimaryRows # {}) =>
               result = app_stock
        /\ (GrowthCalled /\ call.reinvest /\ call.initial_price = None
            /\ call.with_baseline /\ PrimaryRows # {}
            /\ BaselineRowsInRange # {}) =>
               result = FSub(app_stock, app_baseline)

\* C11 witness: run_main over a range holding two rows of the security and
\* two of the baseline, both having grown by different amounts, on a
\* security whose raw closes and dividends differ from its adjusted closes.
C11_Witness ==
    /\ RunMainCalled
    /\ Cardinality(PrimaryRows) = 2
    /\ Cardinality(BaselineRowsInRange) = 2
    /\ \E t \in PrimaryRows :
          prices[t].Close # prices[t].Close_raw /\ prices[t].Dividends > 0
    /\ result.k = "columns"
    /\ IsNum(result.stock_growth) /\ result.stock_growth # Zero
    /\ IsNum(result.baseline_growth) /\ result.baseline_growth # Zero
    /\ IsNum(result.beat) /\ result.beat # Zero

====
